---- MODULE Spec2Model ----
(***************************************************************************)
(* Model of the voting canister in                                         *)
(* src/src/icp_rust_boilerplate_backend/src/lib.rs.                        *)
(*                                                                         *)
(* State: the stable cell ID_COUNTER, the stable map STORAGE, the system    *)
(* time the next call reads with time() (now), and history variables: the  *)
(* identifiers create_vote returned, in call order (created), the          *)
(* identifiers delete_vote removed (deleted), and for every record in the  *)
(* map the id and created_at create_vote returned for it (born), whether   *)
(* an update_vote or cast_vote succeeded on it (mutated) and the number of *)
(* successful cast_vote calls per label since its creation or its last     *)
(* successful update_vote (casts).                                         *)
(*                                                                         *)
(* Every entry point runs to completion before the next one starts (the    *)
(* canister executes one message at a time), so each entry point is one    *)
(* action.  An entry point is an operator from the canister state and the  *)
(* call's arguments to the state it leaves and the value it returns:       *)
(* [ID_COUNTER, STORAGE, res, rec], where res is "Some" (create_vote),     *)
(* "Ok", "NotFound" or "Trap" and rec is the returned record, if any.  A   *)
(* panic inside an update call (StableBTreeMap::insert on a value longer   *)
(* than BoundedStorable::MAX_SIZE) traps the message: the canister state   *)
(* is rolled back to what it was before the call and the caller gets a     *)
(* reject.                                                                 *)
(*                                                                         *)
(* A string is modelled by its content: Str(c, n) is the character c       *)
(* repeated n times, so equality of model strings is equality of the       *)
(* strings and len is the byte length.  Option<T> is a sequence of length  *)
(* at most one: <<>> is None, <<x>> is Some(x).                            *)
(***************************************************************************)
EXTENDS Integers, Sequences, FiniteSets, TLC

VARIABLES ID_COUNTER, STORAGE, now, created, deleted, born, mutated, casts

vars == <<ID_COUNTER, STORAGE, now, created, deleted, born, mutated, casts>>

----------------------------------------------------------------------------
(* Bounds of the model *)

\* create_vote is explored while the counter is below MaxCreates
MaxCreates == 2

\* cast_vote is explored while the tally it increments is below MaxVotes
MaxVotes == 1

----------------------------------------------------------------------------
(* Program constants and inputs *)

\* BoundedStorable::MAX_SIZE
MAX_SIZE == 1024

\* bytes of the Candid header of an encoded Voting: the magic "DIDL", the type
\* table (the record of six fields with their 32-bit field hashes in LEB128,
\* vec text, vec record {text; nat32}, that record, opt nat64) and the
\* argument list
CandidHeaderSize == 55

Str(c, n) == [ch |-> c, len |-> n]

None == <<>>

Some(x) == <<x>>

\* the labels cast_vote is called with: the options of the payloads and "D",
\* an option of no payload
Labels == {Str("A", 1), Str("B", 1), Str("C", 1), Str("D", 1)}

\* the values time() returns; the system time never goes back
Times == {1, 2}

\* the VotingPayload values the entry points are called with: two distinct
\* labels, a repeated label disjoint from them, no option at all, a question
\* that makes the record fit the size cap only while updated_at is None, and a
\* question that makes it exceed the cap
Payloads ==
    { [question |-> Str("p", 1),    options |-> <<Str("A", 1), Str("B", 1)>>],
      [question |-> Str("q", 1),    options |-> <<Str("C", 1), Str("C", 1)>>],
      [question |-> Str("p", 1),    options |-> <<>>],
      [question |-> Str("q", 940),  options |-> <<Str("A", 1)>>],
      [question |-> Str("q", 1000), options |-> <<Str("A", 1)>>] }

\* the u64 identifiers the entry points are called with: the ones create_vote
\* allocates within the bounds and one it never allocates
Ids == 0 .. MaxCreates

----------------------------------------------------------------------------
(* Helpers *)

Range(s) == {s[i] : i \in DOMAIN s}

\* the sum of f[x] over the x in S
RECURSIVE SumOver(_, _)
SumOver(S, f) ==
    IF S = {} THEN 0
    ELSE LET x == CHOOSE y \in S : TRUE
         IN  f[x] + SumOver(S \ {x}, f)

\* length of the LEB128 encoding of n (n < 2^14 in this model)
Leb128(n) == IF n < 128 THEN 1 ELSE 2

\* length of the Candid encoding of a text
TextSize(s) == Leb128(s.len) + s.len

\* Storable::to_bytes: the length of Encode!(vote)
EncodedSize(vote) ==
    CandidHeaderSize
    + 8
    + TextSize(vote.question)
    + Leb128(Len(vote.options))
    + SumOver(DOMAIN vote.options, [i \in DOMAIN vote.options |-> TextSize(vote.options[i])])
    + Leb128(Cardinality(DOMAIN vote.votes))
    + SumOver(DOMAIN vote.votes, [o \in DOMAIN vote.votes |-> TextSize(o) + 4])
    + 8
    + (IF vote.updated_at = None THEN 1 ELSE 9)

\* variant: no size bound is enforced
FitsAlways(vote) == TRUE

\* StableBTreeMap::insert panics on a value longer than MAX_SIZE
Fits(vote) == EncodedSize(vote) <= MAX_SIZE

\* variant: the counter is written back unchanged
NextCounterValueSame(current_value) == current_value

\* the new counter value create_vote writes with Cell::set
NextCounterValue(current_value) == current_value + 1

\* variant: the identifier is the value written to the cell
AllocatedIdNew(current_value) == current_value + 1

\* the identifier create_vote uses: the value of the closure, which is what
\* Cell::set returns, the value the cell held before the set
AllocatedId(current_value) == current_value

\* variant: the loop stops after the first option
InitVotesFirst(options) == [o \in {options[i] : i \in DOMAIN options \cap {1}} |-> 0]

\* the loop that builds the votes map: one insert of 0 per element of options
\* (a HashMap keeps one entry per distinct key)
InitVotes(options) == [o \in Range(options) |-> 0]

\* variant: the new record is stamped as updated
NewVotingStamped(id, payload, t) ==
    [ id         |-> id,
      question   |-> payload.question,
      options    |-> payload.options,
      votes      |-> InitVotes(payload.options),
      created_at |-> t,
      updated_at |-> Some(t) ]

\* the Voting literal of create_vote
NewVoting(id, payload, t) ==
    [ id         |-> id,
      question   |-> payload.question,
      options    |-> payload.options,
      votes      |-> InitVotes(payload.options),
      created_at |-> t,
      updated_at |-> None ]

\* variant: the tallies of labels that stay options are kept
UpdatedVotingMerge(vote, payload, t) ==
    [ vote EXCEPT !.question   = payload.question,
                  !.options    = payload.options,
                  !.votes      = [o \in Range(payload.options) |->
                                      IF o \in DOMAIN vote.votes THEN vote.votes[o] ELSE 0],
                  !.updated_at = Some(t) ]

\* the field assignments of update_vote
UpdatedVoting(vote, payload, t) ==
    [ vote EXCEPT !.question   = payload.question,
                  !.options    = payload.options,
                  !.votes      = InitVotes(payload.options),
                  !.updated_at = Some(t) ]

\* variant: every option is accepted
ContainsAny(options, option) == TRUE

\* vote.options.contains(&option)
Contains(options, option) == option \in Range(options)

\* variant: every tally is incremented
IncrementVoteAll(votes, option) == [o \in DOMAIN votes |-> votes[o] + 1]

\* variant: the increment is lost
IncrementVoteLost(votes, option) == votes

\* if let Some(vote_count) = vote.votes.get_mut(&option) { *vote_count += 1 }
IncrementVote(votes, option) ==
    IF option \in DOMAIN votes
    THEN [votes EXCEPT ![option] = @ + 1]
    ELSE votes

\* variant: the vote is counted but the record is not stamped
VotedVotingNoStamp(vote, option, t) ==
    [ vote EXCEPT !.votes = IncrementVote(vote.votes, option) ]

\* variant: the stamp goes to created_at as well
VotedVotingRestamp(vote, option, t) ==
    [ vote EXCEPT !.votes      = IncrementVote(vote.votes, option),
                  !.created_at = t,
                  !.updated_at = Some(t) ]

\* the record cast_vote stores for a valid option
VotedVoting(vote, option, t) ==
    [ vote EXCEPT !.votes      = IncrementVote(vote.votes, option),
                  !.updated_at = Some(t) ]

\* variant: a missing record is replaced by Voting::default()
storage_get_or_default(storage, id) ==
    IF id \in DOMAIN storage
    THEN Some(storage[id])
    ELSE Some([ id |-> 0, question |-> Str("", 0), options |-> << >>,
                votes |-> << >>, created_at |-> 0, updated_at |-> None ])

\* StableBTreeMap::get
storage_get(storage, id) ==
    IF id \in DOMAIN storage THEN Some(storage[id]) ELSE None

\* variant: an existing entry is kept (insert only if absent)
do_insert_if_absent(storage, vote) ==
    [k \in DOMAIN storage \cup {vote.id} |->
        IF k \in DOMAIN storage THEN storage[k] ELSE vote]

\* variant: the map is replaced by the one entry
do_insert_clobber(storage, vote) == [k \in {vote.id} |-> vote]

\* variant: the key is the number of entries, not the record's id
do_insert_by_len(storage, vote) ==
    [k \in DOMAIN storage \cup {Cardinality(DOMAIN storage)} |->
        IF k = Cardinality(DOMAIN storage) THEN vote ELSE storage[k]]

\* do_insert: StableBTreeMap::insert(vote.id, vote.clone())
do_insert(storage, vote) ==
    [k \in DOMAIN storage \cup {vote.id} |->
        IF k = vote.id THEN vote ELSE storage[k]]

\* variant: the entry is read but not removed
storage_remove_none(storage, id) == storage

\* StableBTreeMap::remove: the map without the key
storage_remove(storage, id) ==
    [k \in DOMAIN storage \ {id} |-> storage[k]]

\* variant: the cell is created anew (Cell::new), whatever the region holds
cell_init_new(region, initial) == initial

\* IdCell::init(memory, initial): the value the region holds, or the initial
\* value when the region was never written
cell_init(region, initial) ==
    IF region = None THEN initial ELSE region[1]

\* variant: the map is created anew (StableBTreeMap::new)
map_init_new(region) == << >>

\* StableBTreeMap::init(memory): the map the region holds (the empty map when
\* the region was never written)
map_init(region) == region

\* the thread_local initialisers, run again after a restart over the stable
\* memory the calls before it left: region 0 holds the counter, region 1 the map
restart(counter, storage) ==
    [ID_COUNTER |-> cell_init(Some(counter), 0), STORAGE |-> map_init(storage)]

\* the outcome of a call: the state it leaves and what the caller gets
Outcome(counter, storage, res, rec) ==
    [ID_COUNTER |-> counter, STORAGE |-> storage, res |-> res, rec |-> rec]

\* a panic traps the message: every change the call made is rolled back
Trap(counter, storage) == Outcome(counter, storage, "Trap", None)

----------------------------------------------------------------------------
(* Entry points, as functions of the state before the call *)

get_vote(counter, storage, id) ==
    LET found == storage_get(storage, id) IN
    IF found # None
    THEN Outcome(counter, storage, "Ok", found)
    ELSE Outcome(counter, storage, "NotFound", None)

\* variant: the write of the counter survives the panic of the insert
create_vote_no_rollback(counter, storage, payload, t) ==
    LET current_value == counter
        id   == AllocatedId(current_value)
        vote == NewVoting(id, payload, t)
    IN  IF Fits(vote)
        THEN Outcome(NextCounterValue(current_value), do_insert(storage, vote),
                     "Some", Some(vote))
        ELSE Outcome(NextCounterValue(current_value), storage, "Trap", None)

\* the counter is written before do_insert runs; when do_insert panics, the
\* trap discards that write with the rest of the call
create_vote(counter, storage, payload, t) ==
    LET current_value == counter
        id   == AllocatedId(current_value)
        vote == NewVoting(id, payload, t)
    IN  IF Fits(vote)
        THEN Outcome(NextCounterValue(current_value), do_insert(storage, vote),
                     "Some", Some(vote))
        ELSE Trap(counter, storage)

update_vote(counter, storage, id, payload, t) ==
    LET voting_option == storage_get(storage, id) IN
    IF voting_option # None
    THEN LET vote == UpdatedVoting(voting_option[1], payload, t) IN
         IF Fits(vote)
         THEN Outcome(counter, do_insert(storage, vote), "Ok", Some(vote))
         ELSE Trap(counter, storage)
    ELSE Outcome(counter, storage, "NotFound", None)

\* variant: deleting a record gives its identifier back to the counter
delete_vote_reclaim(counter, storage, id) ==
    LET removed == storage_get(storage, id) IN
    IF removed # None
    THEN Outcome(counter - 1, storage_remove(storage, id), "Ok", removed)
    ELSE Outcome(counter, storage, "NotFound", None)

delete_vote(counter, storage, id) ==
    LET removed == storage_get(storage, id) IN
    IF removed # None
    THEN Outcome(counter, storage_remove(storage, id), "Ok", removed)
    ELSE Outcome(counter, storage, "NotFound", None)

cast_vote(counter, storage, id, option, t) ==
    LET voting_option == storage_get(storage, id) IN
    IF voting_option # None
    THEN IF Contains(voting_option[1].options, option)
         THEN LET vote == VotedVoting(voting_option[1], option, t) IN
              IF Fits(vote)
              THEN Outcome(counter, do_insert(storage, vote), "Ok", Some(vote))
              ELSE Trap(counter, storage)
         ELSE Outcome(counter, storage, "NotFound", None)
    ELSE Outcome(counter, storage, "NotFound", None)

----------------------------------------------------------------------------
(* Initial state: the memory regions are empty, the cell is initialised to 0 *)

Init ==
    /\ ID_COUNTER = cell_init(None, 0)
    /\ STORAGE = map_init(<< >>)
    /\ now = 1
    /\ created = << >>
    /\ deleted = {}
    /\ born = << >>
    /\ mutated = {}
    /\ casts = << >>

----------------------------------------------------------------------------
(* History bookkeeping *)

NoCasts == [o \in Labels |-> 0]

\* f with key k set to v
Put(f, k, v) == [x \in DOMAIN f \cup {k} |-> IF x = k THEN v ELSE f[x]]

\* f without key k
Drop(f, k) == [x \in DOMAIN f \ {k} |-> f[x]]

----------------------------------------------------------------------------
(* One action per entry point: a call with some arguments at the time now *)

CallGetVote ==
    \E id \in Ids :
        LET out == get_vote(ID_COUNTER, STORAGE, id) IN
        /\ ID_COUNTER' = out.ID_COUNTER
        /\ STORAGE' = out.STORAGE
        /\ UNCHANGED <<now, created, deleted, born, mutated, casts>>

CallCreateVote ==
    \E payload \in Payloads :
        LET out == create_vote(ID_COUNTER, STORAGE, payload, now) IN
        /\ ID_COUNTER < MaxCreates
        /\ ID_COUNTER' = out.ID_COUNTER
        /\ STORAGE' = out.STORAGE
        /\ IF out.res = "Some"
           THEN LET r == out.rec[1] IN
                /\ created' = Append(created, r.id)
                /\ born' = Put(born, r.id, [id |-> r.id, created_at |-> r.created_at])
                /\ mutated' = mutated \ {r.id}
                /\ casts' = Put(casts, r.id, NoCasts)
           ELSE UNCHANGED <<created, born, mutated, casts>>
        /\ UNCHANGED <<now, deleted>>

CallUpdateVote ==
    \E id \in Ids, payload \in Payloads :
        LET out == update_vote(ID_COUNTER, STORAGE, id, payload, now) IN
        /\ ID_COUNTER' = out.ID_COUNTER
        /\ STORAGE' = out.STORAGE
        /\ IF out.res = "Ok"
           THEN /\ mutated' = mutated \cup {id}
                /\ casts' = Put(casts, id, NoCasts)
           ELSE UNCHANGED <<mutated, casts>>
        /\ UNCHANGED <<now, created, deleted, born>>

CallDeleteVote ==
    \E id \in Ids :
        LET out == delete_vote(ID_COUNTER, STORAGE, id) IN
        /\ ID_COUNTER' = out.ID_COUNTER
        /\ STORAGE' = out.STORAGE
        /\ IF out.res = "Ok"
           THEN /\ deleted' = deleted \cup {id}
                /\ born' = Drop(born, id)
                /\ mutated' = mutated \ {id}
                /\ casts' = Drop(casts, id)
           ELSE UNCHANGED <<deleted, born, mutated, casts>>
        /\ UNCHANGED <<now, created>>

CallCastVote ==
    \E id \in Ids, option \in Labels :
        LET out == cast_vote(ID_COUNTER, STORAGE, id, option, now) IN
        /\ (id \in DOMAIN STORAGE /\ option \in DOMAIN STORAGE[id].votes)
              => STORAGE[id].votes[option] < MaxVotes
        /\ id \in DOMAIN casts => casts[id][option] < MaxVotes
        /\ ID_COUNTER' = out.ID_COUNTER
        /\ STORAGE' = out.STORAGE
        /\ IF out.res = "Ok"
           THEN /\ mutated' = mutated \cup {id}
                /\ casts' = Put(casts, id, [casts[id] EXCEPT ![option] = @ + 1])
           ELSE UNCHANGED <<mutated, casts>>
        /\ UNCHANGED <<now, created, deleted, born>>

\* the system time advances between two calls
Tick ==
    /\ \E t \in Times : t > now /\ now' = t
    /\ UNCHANGED <<ID_COUNTER, STORAGE, created, deleted, born, mutated, casts>>

\* the canister restarts between two calls
Restart ==
    /\ ID_COUNTER' = restart(ID_COUNTER, STORAGE).ID_COUNTER
    /\ STORAGE' = restart(ID_COUNTER, STORAGE).STORAGE
    /\ UNCHANGED <<now, created, deleted, born, mutated, casts>>

Next ==
    \/ Tick
    \/ Restart
    \/ CallGetVote
    \/ CallCreateVote
    \/ CallUpdateVote
    \/ CallDeleteVote
    \/ CallCastVote

Spec == Init /\ [][Next]_vars

----------------------------------------------------------------------------
(* Properties *)

\* the outcomes of the calls that can be made in the current state
CreateOut(payload) == create_vote(ID_COUNTER, STORAGE, payload, now)

GetOut(id) == get_vote(ID_COUNTER, STORAGE, id)

UpdateOut(id, payload) == update_vote(ID_COUNTER, STORAGE, id, payload, now)

DeleteOut(id) == delete_vote(ID_COUNTER, STORAGE, id)

CastOut(id, option) == cast_vote(ID_COUNTER, STORAGE, id, option, now)

\* C1: the identifiers returned by create_vote are strictly increasing in call
\* order, hence pairwise distinct, whatever calls come in between; the
\* identifier the next create_vote returns is above every one returned before
\* and is none of the deleted ones.
C1_IdsStrictlyIncreasing ==
    /\ \A i, j \in DOMAIN created : i < j => created[i] < created[j]
    /\ \A payload \in Payloads :
          CreateOut(payload).res = "Some" =>
              /\ \A i \in DOMAIN created : created[i] < CreateOut(payload).rec[1].id
              /\ CreateOut(payload).rec[1].id \notin deleted

\* two creates have returned and a record has been deleted
C1_Witness == Len(created) >= 2 /\ deleted # {}

C3_CreateStoresFreshRecord ==
    \A payload \in Payloads :
        LET out == CreateOut(payload) IN
        out.res = "Some" =>
            LET r == out.rec[1] IN
            /\ r.id \notin DOMAIN STORAGE
            /\ DOMAIN out.STORAGE = DOMAIN STORAGE \cup {r.id}
            /\ out.STORAGE[r.id] = r
            /\ r.question = payload.question
            /\ r.options = payload.options
            /\ DOMAIN r.votes = Range(payload.options)
            /\ \A o \in DOMAIN r.votes : r.votes[o] = 0
            /\ r.updated_at = None

\* a record is stored as create_vote left it, and another create can follow
C3_Witness ==
    /\ \E k \in DOMAIN STORAGE :
          STORAGE[k].updated_at = None /\ Len(STORAGE[k].options) = 2
    /\ \E payload \in Payloads : CreateOut(payload).res = "Some"

C5_CastVoteInvalidOption ==
    \A id \in DOMAIN STORAGE, option \in Labels :
        LET out == CastOut(id, option) IN
        option \notin Range(STORAGE[id].options) =>
            /\ out.res = "NotFound"
            /\ out.rec = None
            /\ out.STORAGE = STORAGE
            /\ out.ID_COUNTER = ID_COUNTER

\* a record with votes is stored next to another record, and some label is
\* none of its options
C5_Witness ==
    \E id \in DOMAIN STORAGE, option \in Labels :
        /\ option \notin Range(STORAGE[id].options)
        /\ \E o \in DOMAIN STORAGE[id].votes : STORAGE[id].votes[o] > 0
        /\ DOMAIN STORAGE # {id}

\* C6: delete_vote(id) on a present id returns Ok with the record as stored
\* and removes it; from then on every get_vote, update_vote, cast_vote and
\* delete_vote of a deleted id returns NotFound.
C6_DeleteRemovesForGood ==
    /\ \A id \in DOMAIN STORAGE :
          /\ DeleteOut(id).res = "Ok"
          /\ DeleteOut(id).rec = Some(STORAGE[id])
          /\ id \notin DOMAIN DeleteOut(id).STORAGE
    /\ \A id \in deleted :
          /\ GetOut(id).res = "NotFound"
          /\ DeleteOut(id).res = "NotFound"
          /\ \A payload \in Payloads : UpdateOut(id, payload).res = "NotFound"
          /\ \A option \in Labels : CastOut(id, option).res = "NotFound"

\* a record that had been voted on was deleted, another create followed, and
\* a record is still stored
C6_Witness ==
    /\ deleted # {}
    /\ \E k \in DOMAIN STORAGE : \E d \in deleted : d < k
    /\ \E k \in DOMAIN STORAGE : STORAGE[k].updated_at # None

C8_AbsentIdNotFound ==
    \A id \in Ids \ DOMAIN STORAGE :
        /\ GetOut(id).res = "NotFound"
        /\ GetOut(id).STORAGE = STORAGE /\ GetOut(id).ID_COUNTER = ID_COUNTER
        /\ DeleteOut(id).res = "NotFound"
        /\ DeleteOut(id).STORAGE = STORAGE /\ DeleteOut(id).ID_COUNTER = ID_COUNTER
        /\ \A payload \in Payloads :
              /\ UpdateOut(id, payload).res = "NotFound"
              /\ UpdateOut(id, payload).STORAGE = STORAGE
              /\ UpdateOut(id, payload).ID_COUNTER = ID_COUNTER
        /\ \A option \in Labels :
              /\ CastOut(id, option).res = "NotFound"
              /\ CastOut(id, option).STORAGE = STORAGE
              /\ CastOut(id, option).ID_COUNTER = ID_COUNTER

\* the map is not empty, one id is absent because it was deleted and one
\* because it was never allocated
C8_Witness ==
    /\ DOMAIN STORAGE # {}
    /\ deleted \ DOMAIN STORAGE # {}
    /\ \E id \in Ids : id >= ID_COUNTER

\* C9: in every reachable state the keys of every stored record's votes map
\* are exactly the labels of its options, repeated labels included.
C9_VotesKeysAreOptions ==
    \A k \in DOMAIN STORAGE : DOMAIN STORAGE[k].votes = Range(STORAGE[k].options)

\* a record with a repeated label that was updated and then voted on, next to
\* a record with two labels
C9_Witness ==
    /\ \E k \in DOMAIN STORAGE :
          /\ Len(STORAGE[k].options) > Cardinality(Range(STORAGE[k].options))
          /\ \E o \in DOMAIN STORAGE[k].votes : STORAGE[k].votes[o] > 0
    /\ \E k \in DOMAIN STORAGE : Cardinality(Range(STORAGE[k].options)) = 2

\* get_vote, update_vote, delete_vote and cast_vote return with the counter
\* they were called with
C10_OthersKeepCounter ==
    \A id \in Ids :
        /\ GetOut(id).ID_COUNTER = ID_COUNTER
        /\ DeleteOut(id).ID_COUNTER = ID_COUNTER
        /\ \A payload \in Payloads : UpdateOut(id, payload).ID_COUNTER = ID_COUNTER
        /\ \A option \in Labels : CastOut(id, option).ID_COUNTER = ID_COUNTER

\* no step lowers the counter, and a step that changes it is a create_vote
\* that returned a record
C10_CounterStep ==
    /\ ID_COUNTER' >= ID_COUNTER
    /\ ID_COUNTER' # ID_COUNTER =>
          \E payload \in Payloads :
              /\ CreateOut(payload).res = "Some"
              /\ ID_COUNTER' = CreateOut(payload).ID_COUNTER
              /\ STORAGE' = CreateOut(payload).STORAGE

\* C10: the id counter never decreases, a step that changes it is a
\* create_vote, and get_vote, update_vote, delete_vote and cast_vote return
\* with the counter unchanged, whether they succeed or fail.
C10_CounterOnlyGrowsByCreate ==
    []C10_OthersKeepCounter /\ [][C10_CounterStep]_vars

\* the counter has grown and records were updated, voted on and deleted since
C10_Witness ==
    /\ ID_COUNTER = MaxCreates
    /\ deleted # {}
    /\ \E k \in DOMAIN STORAGE :
          STORAGE[k].updated_at # None /\ \E o \in DOMAIN STORAGE[k].votes : STORAGE[k].votes[o] > 0

\* the outcomes of all the calls that can be made in the current state
AllOutcomes ==
    {GetOut(id) : id \in Ids}
    \cup {DeleteOut(id) : id \in Ids}
    \cup {CreateOut(payload) : payload \in Payloads}
    \cup {UpdateOut(id, payload) : id \in Ids, payload \in Payloads}
    \cup {CastOut(id, option) : id \in Ids, option \in Labels}

\* C11: for every stored record updated_at is absent exactly as long as no
\* update_vote or cast_vote has succeeded on it since its creation; every
\* successful update_vote or cast_vote leaves it present, and no call turns a
\* present updated_at back to absent.
C11_UpdatedAtTracksMutation ==
    /\ \A k \in DOMAIN STORAGE : (STORAGE[k].updated_at = None) <=> (k \notin mutated)
    /\ \A id \in Ids :
          /\ \A payload \in Payloads :
                UpdateOut(id, payload).res = "Ok" =>
                    UpdateOut(id, payload).STORAGE[id].updated_at # None
          /\ \A option \in Labels :
                CastOut(id, option).res = "Ok" =>
                    CastOut(id, option).STORAGE[id].updated_at # None
    /\ \A k \in DOMAIN STORAGE, out \in AllOutcomes :
          (STORAGE[k].updated_at # None /\ k \in DOMAIN out.STORAGE) =>
              out.STORAGE[k].updated_at # None

\* one record was updated or voted on, another one is as created
C11_Witness ==
    /\ \E k \in DOMAIN STORAGE : k \in mutated /\ STORAGE[k].updated_at # None
    /\ \E k \in DOMAIN STORAGE : k \notin mutated /\ STORAGE[k].updated_at = None

\* C12: from its creation until its deletion, across update_vote and
\* cast_vote calls, the record stored under a key keeps the id and the
\* created_at value create_vote returned for it.
C12_IdAndCreatedAtImmutable ==
    /\ DOMAIN born = DOMAIN STORAGE
    /\ \A k \in DOMAIN STORAGE :
          /\ STORAGE[k].id = born[k].id
          /\ STORAGE[k].created_at = born[k].created_at

\* a record created at time 1 was updated or voted on at time 2
C12_Witness ==
    \E k \in DOMAIN STORAGE :
        /\ k \in mutated
        /\ born[k].created_at = 1
        /\ STORAGE[k].updated_at = Some(2)
        /\ \E o \in DOMAIN STORAGE[k].votes : STORAGE[k].votes[o] > 0

\* C13: whenever create_vote, update_vote or cast_vote succeeds and returns a
\* record r, a get_vote(r.id) issued right after it returns Ok with a record
\* equal to r.
C13_ReadYourWrites ==
    \A out \in {CreateOut(payload) : payload \in Payloads}
              \cup {UpdateOut(id, payload) : id \in Ids, payload \in Payloads}
              \cup {CastOut(id, option) : id \in Ids, option \in Labels} :
        out.res \in {"Some", "Ok"} =>
            /\ out.rec # None
            /\ get_vote(out.ID_COUNTER, out.STORAGE, out.rec[1].id).res = "Ok"
            /\ get_vote(out.ID_COUNTER, out.STORAGE, out.rec[1].id).rec = out.rec

\* a stored record with votes on which a cast_vote and an update_vote succeed,
\* while a create_vote succeeds too
C13_Witness ==
    /\ \E id \in DOMAIN STORAGE, option \in Labels, payload \in Payloads :
          /\ \E o \in DOMAIN STORAGE[id].votes : STORAGE[id].votes[o] > 0
          /\ CastOut(id, option).res = "Ok"
          /\ UpdateOut(id, payload).res = "Ok"
    /\ \E payload \in Payloads : CreateOut(payload).res = "Some"

\* C14: in every reachable state every stored record encodes to at most
\* MAX_SIZE bytes; a create_vote or update_vote whose record would encode to
\* more aborts at the insert and stores nothing.
C14_StoredRecordsFit ==
    /\ \A k \in DOMAIN STORAGE : EncodedSize(STORAGE[k]) <= MAX_SIZE
    /\ \A payload \in Payloads :
          EncodedSize(NewVoting(ID_COUNTER, payload, now)) > MAX_SIZE =>
              /\ CreateOut(payload).res = "Trap"
              /\ CreateOut(payload).STORAGE = STORAGE
    /\ \A id \in DOMAIN STORAGE, payload \in Payloads :
          EncodedSize(UpdatedVoting(STORAGE[id], payload, now)) > MAX_SIZE =>
              /\ UpdateOut(id, payload).res = "Trap"
              /\ UpdateOut(id, payload).STORAGE = STORAGE

\* a record of exactly MAX_SIZE bytes is stored next to another record, and
\* an update_vote of that other record would exceed the cap
C14_Witness ==
    /\ \E k \in DOMAIN STORAGE : EncodedSize(STORAGE[k]) = MAX_SIZE
    /\ \E id \in DOMAIN STORAGE, payload \in Payloads :
          /\ EncodedSize(STORAGE[id]) < MAX_SIZE
          /\ EncodedSize(UpdatedVoting(STORAGE[id], payload, now)) > MAX_SIZE

C17_OverwriteInPlace ==
    /\ \A id \in Ids :
          \A out \in {UpdateOut(id, payload) : payload \in Payloads}
                    \cup {CastOut(id, option) : option \in Labels} :
              /\ DOMAIN out.STORAGE = DOMAIN STORAGE
              /\ out.res = "Ok" =>
                    /\ id \in DOMAIN STORAGE
                    /\ \A j \in DOMAIN STORAGE \ {id} : out.STORAGE[j] = STORAGE[j]
    /\ \A id \in Ids :
          /\ DOMAIN GetOut(id).STORAGE = DOMAIN STORAGE
          /\ IF DeleteOut(id).res = "Ok"
             THEN DOMAIN DeleteOut(id).STORAGE = DOMAIN STORAGE \ {id}
             ELSE DOMAIN DeleteOut(id).STORAGE = DOMAIN STORAGE
    /\ \A payload \in Payloads : DOMAIN STORAGE \subseteq DOMAIN CreateOut(payload).STORAGE

\* two records are stored, and an update_vote and a cast_vote succeed on one
\* that has votes
C17_Witness ==
    /\ Cardinality(DOMAIN STORAGE) = 2
    /\ \E id \in DOMAIN STORAGE, option \in Labels, payload \in Payloads :
          /\ \E o \in DOMAIN STORAGE[id].votes : STORAGE[id].votes[o] > 0
          /\ CastOut(id, option).res = "Ok"
          /\ UpdateOut(id, payload).res = "Ok"

\* C18: in every reachable state the identifier the next create_vote uses is
\* no key of the map, so a successful create_vote overwrites nothing and
\* leaves exactly one record more.
C18_CreateNeverOverwrites ==
    \A payload \in Payloads :
        LET out == CreateOut(payload) IN
        out.res = "Some" =>
            /\ out.rec[1].id \notin DOMAIN STORAGE
            /\ Cardinality(DOMAIN out.STORAGE) = Cardinality(DOMAIN STORAGE) + 1
            /\ \A k \in DOMAIN STORAGE : out.STORAGE[k] = STORAGE[k]

\* a create_vote succeeds on a map that holds a record, after a delete
C18_Witness ==
    /\ DOMAIN STORAGE # {}
    /\ deleted # {}
    /\ \E payload \in Payloads : CreateOut(payload).res = "Some"

\* C19: in every reachable state every entry of the map is stored under the
\* key equal to the id field of its record.
C19_KeyIsRecordId ==
    \A k \in DOMAIN STORAGE : STORAGE[k].id = k

\* two records, the one updated and the other voted on, after a delete
C19_Witness ==
    /\ \E k \in DOMAIN STORAGE : k > 0 /\ k \in mutated
    /\ \E k \in DOMAIN STORAGE :
          \E o \in DOMAIN STORAGE[k].votes : STORAGE[k].votes[o] > 0
    /\ \E k \in DOMAIN STORAGE :
          k \in mutated /\ \A o \in DOMAIN STORAGE[k].votes : STORAGE[k].votes[o] = 0

====
